---- MODULE Spec2Model ----
(***************************************************************************)
(* Model of utils/signal.go: the channel-based interrupt listener          *)
(* (InterruptListener / InterruptRequested) and the broadcast-feed         *)
(* listener (StartInterrupteListener / InterruptFeed).                     *)
(*                                                                         *)
(* Every listener goroutine is a small process:                            *)
(*   "none"  the call has not been made yet                                *)
(*   "start" the goroutine is spawned, signal.Notify not yet executed      *)
(*   "wait"  blocked in the first select                                   *)
(*   "fire"  first event received and logged, sink not yet fired           *)
(*   "send"  (feed only) inside InterruptFeed.Send                         *)
(*   "loop"  blocked in the select of the repeat loop                      *)
(*                                                                         *)
(* shutdownRequestChannel is unbuffered: a raise is a sender blocked on    *)
(* it, and a receive by one listener completes exactly one such send.      *)
(* signal.Notify gives each listener its own channel of capacity 1; the    *)
(* runtime sends to it without blocking and drops the signal when full.    *)
(***************************************************************************)
EXTENDS Integers, Sequences, FiniteSets, TLC

\* ---- bounds of the model ------------------------------------------------
\* calls of InterruptListener and StartInterrupteListener together
MaxListeners == 2
\* subsystems that subscribe to InterruptFeed
MaxSubscribers == 2
\* OS signals and shutdown requests together
MaxEvents == 3
\* calls of InterruptRequested
MaxPolls == 3

\* ---- program constants --------------------------------------------------
\* capacity of interruptChannel: make(chan os.Signal, 1)
InterruptChannelCap == 1

\* interruptSignals = []os.Signal{os.Interrupt}; String() is "interrupt"
interruptSignals == {"interrupt"}

\* <<"chan", i>> is the goroutine of the i-th call of InterruptListener,
\* <<"feed", i>> the goroutine of the i-th call of StartInterrupteListener
ChanListeners == {<<"chan", i>> : i \in 1..MaxListeners}
FeedListeners == {<<"feed", i>> : i \in 1..MaxListeners}
Listeners == ChanListeners \cup FeedListeners
Subscribers == 1..MaxSubscribers

VARIABLES
    pc,                 \* position of each listener goroutine
    interruptChannel,   \* per listener: buffered signals (capacity 1)
    log,                \* per listener: the log.Warn entries it produced
    handle,             \* per channel listener: the returned channel c
    closeCount,         \* per channel listener: executions of close(c)
    pendingRaises,      \* senders blocked on shutdownRequestChannel
    raised,             \* raises made so far
    signalsSent,        \* OS signals delivered to the process so far
    earlyNotify,        \* per listener: Notify ran before any event
    subscribed,         \* subscribers registered on InterruptFeed
    subWhen,            \* per subscriber: when it registered
    sendLock,           \* InterruptFeed's send lock: holder or <<>>
    sendTargets,        \* per feed listener: subscribers still to be served
    sendCount,          \* per feed listener: calls of InterruptFeed.Send
    delivered,          \* per subscriber, per feed listener: deliveries
    pollResults,        \* per handle: the results InterruptRequested returned
    pendingPeak,        \* most raisers ever blocked at the same time
    raisedEarly         \* a raise was made before any listener was started

vars == <<pc, interruptChannel, log, handle, closeCount, pendingRaises,
          raised, signalsSent, earlyNotify, subscribed, subWhen, sendLock,
          sendTargets, sendCount, delivered, pollResults, pendingPeak,
          raisedEarly>>

listenerVars == <<pc, interruptChannel, log>>
handleVars == <<handle, closeCount>>
feedVars == <<subscribed, subWhen, sendLock, sendTargets, sendCount, delivered>>
pollVars == <<pollResults>>
envVars == <<pendingRaises, raised, signalsSent, pendingPeak, raisedEarly>>

\* the sum of f over the set S
RECURSIVE SumOver(_, _)
SumOver(f, S) ==
    IF S = {} THEN 0
    ELSE LET x == CHOOSE y \in S : TRUE IN f[x] + SumOver(f, S \ {x})

\* ---- channels -------------------------------------------------------------
\* make(chan struct{}): open, nothing to receive
MakeChan == [closed |-> FALSE, buf |-> 0]

\* a receive on ch can proceed: a closed channel always yields the zero value
CanRecv(ch) == ch.closed \/ ch.buf > 0

\* a receive that uses up the closure, as if it were a value
AfterRecvTakesClosure(ch) == [ch EXCEPT !.closed = FALSE]

\* the channel after a receive: a buffered value is taken, closure remains
AfterRecv(ch) == IF ch.buf > 0 THEN [ch EXCEPT !.buf = ch.buf - 1] ELSE ch

\* a value is sent on the channel instead of closing it
CloseChanAsSend(ch) == [ch EXCEPT !.buf = ch.buf + 1]

\* close(c)
CloseChan(ch) == [ch EXCEPT !.closed = TRUE]

\* ---- log entries ----------------------------------------------------------
\* log.Warn(msg, "sig", sig.String()) and log.Warn(msg)
MsgSignal == "received signal"
MsgRequest == "received shutdown request"
MsgSignalRepeated == "received signal (repeated)"
MsgRequestRepeated == "received shutdown request (repeated)"

SigEntry(sig) == [msg |-> MsgSignal, sig |-> sig]
ReqEntry == [msg |-> MsgRequest, sig |-> "none"]
SigRepeatedEntry(sig) == [msg |-> MsgSignalRepeated, sig |-> sig]
ReqRepeatedEntry == [msg |-> MsgRequestRepeated, sig |-> "none"]

Registered(l) == pc[l] \notin {"none", "start"}
Started == {l \in Listeners : pc[l] # "none"}
Events == signalsSent + raised

Init ==
    /\ pc = [l \in Listeners |-> "none"]
    /\ interruptChannel = [l \in Listeners |-> <<>>]
    /\ log = [l \in Listeners |-> <<>>]
    /\ handle = [l \in ChanListeners |-> MakeChan]
    /\ closeCount = [l \in ChanListeners |-> 0]
    /\ pendingRaises = 0
    /\ raised = 0
    /\ signalsSent = 0
    /\ earlyNotify = [l \in Listeners |-> FALSE]
    /\ subscribed = {}
    /\ subWhen = [s \in Subscribers |-> "none"]
    /\ sendLock = <<>>
    /\ sendTargets = [l \in FeedListeners |-> {}]
    /\ sendCount = [l \in FeedListeners |-> 0]
    /\ delivered = [s \in Subscribers |-> [l \in FeedListeners |-> 0]]
    /\ pollResults = [l \in ChanListeners |-> <<>>]
    /\ pendingPeak = 0
    /\ raisedEarly = FALSE

\* ---- environment ----------------------------------------------------------
\* A subsystem requests shutdown: it blocks sending on the unbuffered channel.
RaiseShutdownRequest ==
    /\ Events < MaxEvents
    /\ raised' = raised + 1
    /\ pendingRaises' = pendingRaises + 1
    /\ pendingPeak' = IF pendingRaises' > pendingPeak THEN pendingRaises' ELSE pendingPeak
    /\ raisedEarly' = (raisedEarly \/ Started = {})
    /\ UNCHANGED <<listenerVars, handleVars, signalsSent, earlyNotify,
                   feedVars, pollVars>>

\* as if the listeners shared one subscription: one of them gets the signal
NotifySendShared(ch, l, sig) ==
    IF l = (CHOOSE m \in Listeners : Registered(m)) /\ Len(ch) < InterruptChannelCap
    THEN Append(ch, sig)
    ELSE ch

\* a channel that keeps every signal offered to it
NotifySendUnbounded(ch, l, sig) == Append(ch, sig)

\* what the channel given to signal.Notify holds after the runtime offers it
\* sig: a non-blocking send, dropped when the channel is full
NotifySend(ch, l, sig) ==
    IF Len(ch) < InterruptChannelCap THEN Append(ch, sig) ELSE ch

\* The OS delivers an interrupt signal: every listener that has executed
\* signal.Notify is offered it on its own channel.  With no Notify in effect
\* the default disposition ends the process, so no state follows.
DeliverSignal(sig) ==
    /\ Events < MaxEvents
    /\ \E l \in Listeners : Registered(l)
    /\ signalsSent' = signalsSent + 1
    /\ interruptChannel' =
          [l \in Listeners |->
              IF Registered(l) THEN NotifySend(interruptChannel[l], l, sig)
              ELSE interruptChannel[l]]
    /\ UNCHANGED <<pc, log, handleVars, pendingRaises, raised, pendingPeak,
                   raisedEarly, earlyNotify, feedVars, pollVars>>

\* ---- both listeners: goroutine start and signal.Notify ------------------
\* calls are numbered in the order they are made
PrevStarted(l) == IF l[2] = 1 THEN TRUE ELSE pc[<<l[1], l[2] - 1>>] # "none"

\* InterruptListener(): c := make(chan struct{}); go func(){...}(); return c
InterruptListener(l) ==
    /\ pc[l] = "none"
    /\ PrevStarted(l)
    /\ Cardinality(Started) < MaxListeners
    /\ pc' = [pc EXCEPT ![l] = "start"]
    /\ handle' = [handle EXCEPT ![l] = MakeChan]
    /\ UNCHANGED <<interruptChannel, log, closeCount, envVars, earlyNotify,
                   feedVars, pollVars>>

\* StartInterrupteListener(): go func(){...}()
StartInterrupteListener(l) ==
    /\ pc[l] = "none"
    /\ PrevStarted(l)
    /\ Cardinality(Started) < MaxListeners
    /\ pc' = [pc EXCEPT ![l] = "start"]
    /\ UNCHANGED <<interruptChannel, log, handleVars, envVars, earlyNotify,
                   feedVars, pollVars>>

\* interruptChannel := make(chan os.Signal, 1); signal.Notify(...)
Notify(l) ==
    /\ pc[l] = "start"
    /\ pc' = [pc EXCEPT ![l] = "wait"]
    /\ interruptChannel' = [interruptChannel EXCEPT ![l] = <<>>]
    /\ earlyNotify' = [earlyNotify EXCEPT ![l] = (Events = 0)]
    /\ UNCHANGED <<log, handleVars, envVars, feedVars, pollVars>>

ListenerNotify(l) == Notify(l)
FeedNotify(l) == Notify(l)

\* ---- the select statements ------------------------------------------------
\* case sig := <-interruptChannel, logging msg with sig.String(), continuing
\* at next
RecvSignal(l, from, next, msg) ==
    /\ pc[l] = from
    /\ interruptChannel[l] # <<>>
    /\ log' = [log EXCEPT ![l] = Append(@, [msg |-> msg, sig |-> Head(interruptChannel[l])])]
    /\ interruptChannel' = [interruptChannel EXCEPT ![l] = Tail(@)]
    /\ pc' = [pc EXCEPT ![l] = next]
    /\ UNCHANGED <<handleVars, envVars, earlyNotify, feedVars, pollVars>>

\* case <-shutdownRequestChannel, logging entry, continuing at next:
\* the receive completes the send of exactly one blocked raiser
RecvRequest(l, from, next, entry) ==
    /\ pc[l] = from
    /\ pendingRaises > 0
    /\ pendingRaises' = pendingRaises - 1
    /\ log' = [log EXCEPT ![l] = Append(@, entry)]
    /\ pc' = [pc EXCEPT ![l] = next]
    /\ UNCHANGED <<interruptChannel, handleVars, raised, signalsSent,
                   pendingPeak, raisedEarly, earlyNotify, feedVars, pollVars>>

\* ---- channel-based listener ----------------------------------------------
\* the signal case logging the message of the request case
ListenerFirstSignalAsRequest(l) == RecvSignal(l, "wait", "fire", MsgRequest)

ListenerFirstSignal(l) == RecvSignal(l, "wait", "fire", MsgSignal)

\* the trigger as a single slot: one receive clears every pending raise
ListenerFirstRequestDrain(l) ==
    /\ pc[l] = "wait"
    /\ pendingRaises > 0
    /\ pendingRaises' = 0
    /\ log' = [log EXCEPT ![l] = Append(@, ReqEntry)]
    /\ pc' = [pc EXCEPT ![l] = "fire"]
    /\ UNCHANGED <<interruptChannel, handleVars, raised, signalsSent,
                   pendingPeak, raisedEarly, earlyNotify, feedVars, pollVars>>

\* the first select without its shutdownRequestChannel case
ListenerFirstRequestMissing(l) ==
    /\ pc[l] = "wait"
    /\ FALSE
    /\ UNCHANGED vars

ListenerFirstRequest(l) == RecvRequest(l, "wait", "fire", ReqEntry)

\* close(c) placed inside the loop: the listener waits for a first event again
ListenerCloseRearm(l) ==
    /\ pc[l] = "fire"
    /\ handle' = [handle EXCEPT ![l] = CloseChan(@)]
    /\ closeCount' = [closeCount EXCEPT ![l] = @ + 1]
    /\ pc' = [pc EXCEPT ![l] = "wait"]
    /\ UNCHANGED <<interruptChannel, log, envVars, earlyNotify, feedVars,
                   pollVars>>

\* close(c)
ListenerClose(l) ==
    /\ pc[l] = "fire"
    /\ handle' = [handle EXCEPT ![l] = CloseChan(@)]
    /\ closeCount' = [closeCount EXCEPT ![l] = @ + 1]
    /\ pc' = [pc EXCEPT ![l] = "loop"]
    /\ UNCHANGED <<interruptChannel, log, envVars, earlyNotify, feedVars,
                   pollVars>>

ListenerRepeatSignal(l) == RecvSignal(l, "loop", "loop", MsgSignalRepeated)

\* the repeat loop logging the first-occurrence message
ListenerRepeatRequestAsFirst(l) == RecvRequest(l, "loop", "loop", ReqEntry)

\* the goroutine returns after a repeated request
ListenerRepeatRequestReturn(l) == RecvRequest(l, "loop", "done", ReqRepeatedEntry)

ListenerRepeatRequest(l) == RecvRequest(l, "loop", "loop", ReqRepeatedEntry)

\* ---- InterruptRequested ---------------------------------------------------
\* the two results swapped
InterruptRequestedInverted(ch) == IF CanRecv(ch) THEN FALSE ELSE TRUE

\* select { case <-interrupted: return true; default: }; return false
InterruptRequested(ch) == IF CanRecv(ch) THEN TRUE ELSE FALSE

\* calls of InterruptRequested made so far
Polls == SumOver([l \in ChanListeners |-> Len(pollResults[l])], ChanListeners)

\* a caller polls the handle returned by the l-th InterruptListener call
Poll(l) ==
    /\ pc[l] # "none"
    /\ Polls < MaxPolls
    /\ pollResults' = [pollResults EXCEPT ![l] =
                          Append(@, InterruptRequested(handle[l]))]
    /\ handle' = [handle EXCEPT ![l] =
                     IF CanRecv(@) THEN AfterRecv(@) ELSE @]
    /\ UNCHANGED <<listenerVars, closeCount, envVars, earlyNotify, feedVars>>

\* ---- broadcast-feed listener ----------------------------------------------
FeedFirstSignal(l) == RecvSignal(l, "wait", "fire", MsgSignal)

\* the request is observed without completing the raiser's send
FeedFirstRequestNoConsume(l) ==
    /\ pc[l] = "wait"
    /\ pendingRaises > 0
    /\ log' = [log EXCEPT ![l] = Append(@, ReqEntry)]
    /\ pc' = [pc EXCEPT ![l] = "fire"]
    /\ UNCHANGED <<interruptChannel, handleVars, envVars, earlyNotify,
                   feedVars, pollVars>>

FeedFirstRequest(l) == RecvRequest(l, "wait", "fire", ReqEntry)

\* a subsystem registers on InterruptFeed; a registration made while a Send
\* is in progress is not part of that Send
Subscribe(s) ==
    /\ s \notin subscribed
    /\ s = 1 \/ (s - 1) \in subscribed
    /\ subscribed' = subscribed \cup {s}
    /\ subWhen' = [subWhen EXCEPT ![s] =
                      IF Events = 0 THEN "beforeEvent"
                      ELSE IF \E l \in FeedListeners : sendCount[l] > 0
                           THEN "afterPublish" ELSE "between"]
    /\ UNCHANGED <<listenerVars, handleVars, envVars, earlyNotify, sendLock,
                   sendTargets, sendCount, delivered, pollVars>>

\* InterruptFeed.Send(struct{}{}) entered: the send lock is taken and the
\* subscribers registered at this moment are the ones to be served
FeedSendBegin(l) ==
    /\ pc[l] = "fire"
    /\ sendLock = <<>>
    /\ sendLock' = l
    /\ sendTargets' = [sendTargets EXCEPT ![l] = subscribed]
    /\ sendCount' = [sendCount EXCEPT ![l] = @ + 1]
    /\ pc' = [pc EXCEPT ![l] = "send"]
    /\ UNCHANGED <<interruptChannel, log, handleVars, envVars, earlyNotify,
                   subscribed, subWhen, delivered, pollVars>>

\* one subscriber takes delivery of the value being sent
FeedDeliver(l, s) ==
    /\ pc[l] = "send"
    /\ s \in sendTargets[l]
    /\ sendTargets' = [sendTargets EXCEPT ![l] = @ \ {s}]
    /\ delivered' = [delivered EXCEPT ![s][l] = @ + 1]
    /\ UNCHANGED <<listenerVars, handleVars, envVars, earlyNotify, subscribed,
                   subWhen, sendLock, sendCount, pollVars>>

\* after Send the listener waits for a first event again
FeedSendEndRearm(l) ==
    /\ pc[l] = "send"
    /\ sendTargets[l] = {}
    /\ sendLock' = <<>>
    /\ pc' = [pc EXCEPT ![l] = "wait"]
    /\ UNCHANGED <<interruptChannel, log, handleVars, envVars, earlyNotify,
                   subscribed, subWhen, sendTargets, sendCount, delivered,
                   pollVars>>

\* Send returning without waiting for the subscribers
FeedSendEndEarly(l) ==
    /\ pc[l] = "send"
    /\ sendLock' = <<>>
    /\ pc' = [pc EXCEPT ![l] = "loop"]
    /\ UNCHANGED <<interruptChannel, log, handleVars, envVars, earlyNotify,
                   subscribed, subWhen, sendTargets, sendCount, delivered,
                   pollVars>>

\* Send returns once every subscriber has been served
FeedSendEnd(l) ==
    /\ pc[l] = "send"
    /\ sendTargets[l] = {}
    /\ sendLock' = <<>>
    /\ pc' = [pc EXCEPT ![l] = "loop"]
    /\ UNCHANGED <<interruptChannel, log, handleVars, envVars, earlyNotify,
                   subscribed, subWhen, sendTargets, sendCount, delivered,
                   pollVars>>

\* the repeat loop logging a signal with the first-occurrence message
FeedRepeatSignalAsFirst(l) == RecvSignal(l, "loop", "loop", MsgSignal)

FeedRepeatSignal(l) == RecvSignal(l, "loop", "loop", MsgSignalRepeated)

\* a repeated request publishes again
FeedRepeatRequestResend(l) == RecvRequest(l, "loop", "fire", ReqRepeatedEntry)

FeedRepeatRequest(l) == RecvRequest(l, "loop", "loop", ReqRepeatedEntry)

\* ---- specifications -------------------------------------------------------
Environment ==
    \/ RaiseShutdownRequest
    \/ \E sig \in interruptSignals : DeliverSignal(sig)

\* the call of InterruptListener that starts l, and the steps of its goroutine
ChanListenerStep(l) ==
    \/ InterruptListener(l)
    \/ ListenerNotify(l)
    \/ ListenerFirstSignal(l)
    \/ ListenerFirstRequest(l)
    \/ ListenerClose(l)
    \/ ListenerRepeatSignal(l)
    \/ ListenerRepeatRequest(l)

\* the call of StartInterrupteListener that starts l, and the steps of its
\* goroutine
FeedListenerStep(l) ==
    \/ StartInterrupteListener(l)
    \/ FeedNotify(l)
    \/ FeedFirstSignal(l)
    \/ FeedFirstRequest(l)
    \/ FeedSendBegin(l)
    \/ FeedSendEnd(l)
    \/ FeedRepeatSignal(l)
    \/ FeedRepeatRequest(l)

\* the subsystems subscribed to InterruptFeed
SubscriberStep ==
    \/ \E s \in Subscribers : Subscribe(s)
    \/ \E l \in FeedListeners : \E s \in Subscribers : FeedDeliver(l, s)

\* the whole program: any calls, polls and subscriptions
Next ==
    \/ Environment
    \/ \E l \in ChanListeners : ChanListenerStep(l)
    \/ \E l \in ChanListeners : Poll(l)
    \/ \E l \in FeedListeners : FeedListenerStep(l)
    \/ SubscriberStep

Spec == Init /\ [][Next]_vars

\* InterruptListener is called once and its handle is polled
NextChan ==
    \/ Environment
    \/ ChanListenerStep(<<"chan", 1>>)
    \/ Poll(<<"chan", 1>>)

SpecChan == Init /\ [][NextChan]_vars

\* SpecChan with the goroutine scheduled fairly: a step of the listener that
\* stays possible is eventually taken, and a select takes each case that stays
\* ready.  The callers, the raisers and the OS are under no such obligation.
ChanListenerFairness(l) ==
    /\ WF_vars(ListenerNotify(l))
    /\ WF_vars(ListenerFirstSignal(l))
    /\ WF_vars(ListenerFirstRequest(l))
    /\ WF_vars(ListenerClose(l))
    /\ WF_vars(ListenerRepeatSignal(l))
    /\ WF_vars(ListenerRepeatRequest(l))

FairSpecChan == SpecChan /\ ChanListenerFairness(<<"chan", 1>>)

\* StartInterrupteListener is called once and subsystems subscribe to the feed
NextFeed ==
    \/ Environment
    \/ FeedListenerStep(<<"feed", 1>>)
    \/ SubscriberStep

SpecFeed == Init /\ [][NextFeed]_vars

\* any number of calls of both variants; nobody polls or subscribes
NextBoth ==
    \/ Environment
    \/ \E l \in ChanListeners : ChanListenerStep(l)
    \/ \E l \in FeedListeners : FeedListenerStep(l)

SpecBoth == Init /\ [][NextBoth]_vars

\* ---- helpers for the properties --------------------------------------------
IsReq(e) == e.msg \in {MsgRequest, MsgRequestRepeated}
IsRepeated(e) == e.msg \in {MsgSignalRepeated, MsgRequestRepeated}

\* shutdown-request entries (first or repeated) in one listener's log
ReqCount(lg) == Cardinality({i \in 1..Len(lg) : IsReq(lg[i])})

\* repeated shutdown-request entries in one listener's log
ReqRepeatedCount(lg) == Cardinality({i \in 1..Len(lg) : lg[i] = ReqRepeatedEntry})

\* shutdown requests received so far, by all listeners together
TotalReq == SumOver([l \in Listeners |-> ReqCount(log[l])], Listeners)

\* calls of InterruptFeed.Send so far, by all listeners together
TotalSends == SumOver(sendCount, FeedListeners)

\* l is the only listener that was ever started
Sole(l) == \A m \in Listeners \ {l} : pc[m] = "none"

\* nothing is pending or in progress anywhere
Quiescent ==
    /\ pendingRaises = 0
    /\ \A l \in Listeners : interruptChannel[l] = <<>> /\ pc[l] \notin {"fire", "send"}

TypeOK ==
    /\ pc \in [Listeners -> {"none", "start", "wait", "fire", "send", "loop"}]
    /\ \A l \in Listeners : Len(interruptChannel[l]) <= InterruptChannelCap
    /\ pendingRaises \in 0..raised
    /\ subscribed \subseteq Subscribers

\* ---- C1 -------------------------------------------------------------------
\* C1: each handle is closed at most once, it is closed by the step that
\* follows the listener's first received event (before the listener receives
\* anything else), and it is open as long as the listener has received nothing.
C1_ClosedOnceOnFirstEvent ==
    \A l \in ChanListeners :
        /\ closeCount[l] <= 1
        /\ handle[l].closed <=> closeCount[l] = 1
        /\ closeCount[l] = 1 <=> pc[l] = "loop"
        /\ log[l] = <<>> => closeCount[l] = 0
        /\ pc[l] = "fire" => Len(log[l]) = 1
        /\ Len(log[l]) >= 2 => closeCount[l] = 1

\* a handle closed once although its listener received three events
C1_Witness ==
    \E l \in ChanListeners : closeCount[l] = 1 /\ Len(log[l]) >= 3

\* ---- C2 -------------------------------------------------------------------
\* C2: every call of InterruptRequested is a single step that is enabled
\* whatever the state of the handle, and it returns true exactly when the
\* listener has closed the handle; it returns false while the listener has
\* received no event.
C2_PollTrueIffClosed ==
    [][\A l \in ChanListeners :
          /\ (pc[l] # "none" /\ Polls < MaxPolls) => ENABLED Poll(l)
          /\ pollResults'[l] # pollResults[l] =>
                /\ Len(pollResults'[l]) = Len(pollResults[l]) + 1
                /\ pollResults'[l][Len(pollResults'[l])] = (closeCount[l] = 1)
                /\ log[l] = <<>> => pollResults'[l][Len(pollResults'[l])] = FALSE]_vars

\* a poll that returned false followed by a poll that returned true
C2_Witness ==
    \E l \in ChanListeners : pollResults[l] = <<FALSE, TRUE>>

\* ---- C3 -------------------------------------------------------------------
\* C3: in the sequence of results InterruptRequested returned for a handle,
\* no false comes after a true.
C3_FiredIsPermanent ==
    \A l \in ChanListeners :
        \A i, j \in 1..Len(pollResults[l]) :
            (i < j /\ pollResults[l][i]) => pollResults[l][j]

\* two polls returned true with further events received in between or after
C3_Witness ==
    \E l \in ChanListeners :
        /\ pollResults[l] = <<TRUE, TRUE>>
        /\ Len(log[l]) >= 3

\* ---- C4 -------------------------------------------------------------------
\* C4: with a single broadcast-feed listener, a subscriber registered before
\* the first event never has more than one delivery and has exactly one once
\* Send has returned; a subscriber registered after the first Send began has
\* none, whatever events follow.
C4_EarlyOneLateZero ==
    \A f \in FeedListeners :
        Sole(f) =>
            \A s \in subscribed :
                /\ subWhen[s] = "afterPublish" => delivered[s][f] = 0
                /\ subWhen[s] = "beforeEvent" =>
                      /\ delivered[s][f] <= 1
                      /\ pc[f] = "loop" => delivered[s][f] = 1

\* one early subscriber served once, one late subscriber served never, and the
\* listener has received further events since
C4_Witness ==
    \E f \in FeedListeners :
        /\ Sole(f)
        /\ pc[f] = "loop"
        /\ Len(log[f]) >= 3
        /\ \E s, t \in subscribed :
              /\ subWhen[s] = "beforeEvent" /\ delivered[s][f] = 1
              /\ subWhen[t] = "afterPublish" /\ delivered[t][f] = 0

\* ---- C5 -------------------------------------------------------------------
\* C5: each broadcast-feed listener calls InterruptFeed.Send at most once, it
\* has called it by the time it receives its second event, every entry it logs
\* after the first is a repeated one, and no subscriber has more than one
\* delivery from it.
C5_SendOnceThenLogOnly ==
    \A l \in FeedListeners :
        /\ sendCount[l] <= 1
        /\ sendCount[l] = 1 <=> pc[l] \in {"send", "loop"}
        /\ Len(log[l]) >= 2 => pc[l] = "loop"
        /\ \A i \in 1..Len(log[l]) : IsRepeated(log[l][i]) <=> i >= 2
        /\ \A s \in Subscribers : delivered[s][l] <= 1

\* a listener that sent once, served a subscriber and then logged two
\* repeated events
C5_Witness ==
    \E l \in FeedListeners : \E s \in Subscribers :
        sendCount[l] = 1 /\ delivered[s][l] = 1 /\ Len(log[l]) >= 3

\* ---- C6 -------------------------------------------------------------------
\* C6 as stated: when a channel-based and a broadcast-feed listener both ran
\* signal.Notify before any event, then once an event has occurred and nothing
\* is pending any more, both have left Idle and fired.
C6_BothReceiveEveryOccurrence ==
    \A c \in ChanListeners, f \in FeedListeners :
        (earlyNotify[c] /\ earlyNotify[f] /\ Events >= 1 /\ Quiescent)
            => (pc[c] = "loop" /\ pc[f] = "loop")

\* C6 amended: an OS signal is offered to every listener that ran
\* signal.Notify, so once the signal of two listeners registered before any
\* event has been taken, both have left Idle; a shutdown request is received
\* by one listener only, so without OS signals no more listeners have left
\* Idle than requests were received.
C6_SignalsFanOutRequestsDoNot ==
    /\ \A c \in ChanListeners, f \in FeedListeners :
          (/\ earlyNotify[c] /\ earlyNotify[f]
           /\ signalsSent >= 1
           /\ interruptChannel[c] = <<>> /\ interruptChannel[f] = <<>>)
              => (log[c] # <<>> /\ log[f] # <<>>)
    /\ signalsSent = 0 =>
          Cardinality({l \in Listeners : log[l] # <<>>}) <= raised - pendingRaises

\* one OS signal and no request moved both listeners to Fired
C6_Witness ==
    \E c \in ChanListeners, f \in FeedListeners :
        /\ earlyNotify[c] /\ earlyNotify[f]
        /\ signalsSent = 1 /\ raised = 0
        /\ pc[c] = "loop" /\ pc[f] = "loop"

C8_RepeatedRaisesOnlyLog ==
    [][\A l \in ChanListeners :
          (Sole(l) /\ pc[l] = "loop") =>
              /\ pc'[l] = "loop"
              /\ handle'[l] = handle[l]
              /\ closeCount'[l] = closeCount[l]
              /\ InterruptRequested(handle'[l])
              /\ pendingRaises' < pendingRaises =>
                    log'[l] = Append(log[l], ReqRepeatedEntry)
              /\ ReqRepeatedCount(log'[l]) =
                    (raised' - pendingRaises')
                       - (IF log'[l][1] = ReqEntry THEN 1 ELSE 0)]_vars

\* fired by an OS signal, then two raises received: two repeated entries
C8_Witness ==
    \E l \in ChanListeners :
        /\ Sole(l)
        /\ Len(log[l]) = 3
        /\ log[l] = <<SigEntry("interrupt"), ReqRepeatedEntry, ReqRepeatedEntry>>
        /\ handle[l].closed

\* ---- C9 -------------------------------------------------------------------
\* C9: a step completes at most one raise; when it does, exactly one listener
\* logs exactly one shutdown-request entry and no other log changes; and a
\* shutdown-request entry is logged only by a step that completes a raise.
C9_OneRaiseOneListener ==
    [][/\ pendingRaises' >= pendingRaises - 1
       /\ pendingRaises' = pendingRaises - 1 =>
             \E l \in Listeners :
                 /\ \E e \in {ReqEntry, ReqRepeatedEntry} : log'[l] = Append(log[l], e)
                 /\ \A m \in Listeners \ {l} : log'[m] = log[m]
       /\ \A l \in Listeners :
             log'[l] # log[l] =>
                 /\ log'[l] = Append(log[l], log'[l][Len(log'[l])])
                 /\ IsReq(log'[l][Len(log'[l])]) =>
                       pendingRaises' = pendingRaises - 1]_vars

\* two listeners were waiting, one raise was made: one received it, the other
\* still waits
C9_Witness ==
    \E l, m \in Listeners :
        /\ l # m
        /\ earlyNotify[l] /\ earlyNotify[m]
        /\ raised = 1 /\ pendingRaises = 0 /\ signalsSent = 0
        /\ ReqCount(log[l]) = 1
        /\ pc[m] = "wait" /\ log[m] = <<>>

\* ---- C10 ------------------------------------------------------------------
\* C10: no handle is closed more than once, and InterruptFeed.Send is called
\* at most once in total, however many listeners were started.
C10_FirstOccurrenceOncePerSink ==
    /\ \A l \in ChanListeners : closeCount[l] <= 1
    /\ TotalSends <= 1

\* ---- C11 ------------------------------------------------------------------
\* C11: a channel-based listener that has reached the repeat loop never leaves
\* it, each shutdown request it receives there is logged as repeated, and with
\* the goroutine scheduled fairly the raisers blocked once the handle is
\* closed are all eventually released.
C11_LoopForeverRaisesReceived ==
    /\ [][\A l \in ChanListeners :
             pc[l] = "loop" =>
                 /\ pc'[l] = "loop"
                 /\ log'[l] # log[l] /\ pendingRaises' < pendingRaises =>
                       log'[l] = Append(log[l], ReqRepeatedEntry)]_vars
    /\ \A l \in ChanListeners :
          (handle[l].closed /\ pendingRaises > 0) ~> (pendingRaises = 0)

\* fired by a request, then two more raises received in the loop and no
\* raiser left blocked
C11_Witness ==
    \E l \in ChanListeners :
        /\ pc[l] = "loop"
        /\ log[l] = <<ReqEntry, ReqRepeatedEntry, ReqRepeatedEntry>>
        /\ pendingRaises = 0

\* ---- C12 ------------------------------------------------------------------
\* the sink of listener l has fired: its handle is closed, or it has entered
\* InterruptFeed.Send
SinkFired(l) ==
    IF l \in ChanListeners THEN handle[l].closed ELSE sendCount[l] >= 1

\* C12: the step that writes a listener's first log entry takes either the
\* signal at the head of its channel and logs 'received signal' with that
\* signal's name, or one pending raise and logs 'received shutdown request',
\* and the sink has not fired when that step is done; so a fired sink always
\* has a non-repeated first entry in the log.
C12_FirstEntryBeforeSinkNamesEvent ==
    [][\A l \in Listeners :
          /\ (log[l] = <<>> /\ log'[l] # <<>>) =>
                /\ ~SinkFired(l)'
                /\ \/ /\ interruptChannel[l] # <<>>
                      /\ log'[l] = <<SigEntry(Head(interruptChannel[l]))>>
                      /\ interruptChannel'[l] = Tail(interruptChannel[l])
                      /\ pendingRaises' = pendingRaises
                   \/ /\ pendingRaises > 0
                      /\ log'[l] = <<ReqEntry>>
                      /\ pendingRaises' = pendingRaises - 1
                      /\ interruptChannel'[l] = interruptChannel[l]
          /\ SinkFired(l)' =>
                /\ log'[l] # <<>>
                /\ log'[l][1] \in {SigEntry(sig) : sig \in interruptSignals} \cup {ReqEntry}
                /\ log[l] # <<>>]_vars

\* a handle closed after a logged signal and a feed published after a logged
\* shutdown request
C12_Witness ==
    \E c \in ChanListeners, f \in FeedListeners :
        /\ handle[c].closed /\ log[c][1] = SigEntry("interrupt")
        /\ sendCount[f] = 1 /\ log[f][1] = ReqEntry

C14_PollChangesNothing ==
    [][\A l \in ChanListeners :
          pollResults'[l] # pollResults[l] =>
              /\ handle' = handle
              /\ UNCHANGED <<listenerVars, closeCount, envVars, earlyNotify, feedVars>>
              /\ handle[l].closed => pollResults'[l][Len(pollResults'[l])] = TRUE]_vars

\* three calls on one handle, interleaved with the listener: the one before
\* the close saw it open, the two after it both saw it closed
C14_Witness ==
    \E l \in ChanListeners :
        /\ pollResults[l] = <<FALSE, TRUE, TRUE>>
        /\ handle[l].closed

\* ---- C15 ------------------------------------------------------------------
\* C15 as stated: when a raise was made before any listener was started, the
\* first event the listener receives is that shutdown request.
C15_EarlyRaiseIsFirstEvent ==
    \A l \in ChanListeners :
        (raisedEarly /\ log[l] # <<>>) => log[l][1] = ReqEntry

\* C15 amended: a raise made before any listener was started keeps its raiser
\* blocked until a listener receives a shutdown request, and once the
\* channel-based listener is started and scheduled fairly it eventually has
\* closed its handle and received a shutdown request; the request need not be
\* its first event, since an OS signal that reaches the listener before its
\* first select may be taken first.
C15_EarlyRaiseEventuallyReceived ==
    /\ [](\A l \in ChanListeners :
             (raisedEarly /\ Sole(l) /\ ReqCount(log[l]) = 0) => pendingRaises >= 1)
    /\ \A l \in ChanListeners :
          (raisedEarly /\ pc[l] # "none")
              ~> (handle[l].closed /\ ReqCount(log[l]) >= 1)

\* the early raise was received as the first event and the handle is closed
C15_Witness ==
    \E l \in ChanListeners :
        /\ raisedEarly
        /\ log[l] # <<>> /\ log[l][1] = ReqEntry
        /\ handle[l].closed
        /\ pendingRaises = 0

\* ---- C16 ------------------------------------------------------------------
\* C16: while a subscriber registered at publish time has not taken delivery,
\* the broadcast-feed listener is inside Send and has logged only its first
\* entry; it is in the repeat loop only when every such subscriber has exactly
\* one delivery; and while the only listener is inside Send no raise is
\* received, so every raiser stays blocked.
C16_LoopOnlyAfterAllServed ==
    [][\A f \in FeedListeners :
          /\ sendTargets'[f] # {} => (pc'[f] = "send" /\ Len(log'[f]) = 1)
          /\ pc'[f] = "loop" =>
                /\ sendTargets'[f] = {}
                /\ \A s \in subscribed' :
                      subWhen'[s] # "afterPublish" => delivered'[s][f] = 1
          /\ (pc[f] = "send" /\ Sole(f)) =>
                (pendingRaises' >= pendingRaises /\ log'[f] = log[f])]_vars

\* one subscriber served, one not yet: the listener is still inside Send and
\* a raise made meanwhile is blocked
C16_Witness ==
    \E f \in FeedListeners : \E s, t \in Subscribers :
        /\ pc[f] = "send"
        /\ delivered[s][f] = 1
        /\ t \in sendTargets[f]
        /\ log[f] = <<SigEntry("interrupt")>>
        /\ pendingRaises >= 1

\* ---- C17 ------------------------------------------------------------------
\* 'received signal' entries, first or repeated, in one listener's log
SigCount(lg) ==
    Cardinality({i \in 1..Len(lg) : lg[i].msg \in {MsgSignal, MsgSignalRepeated}})

\* C17: a listener's signal channel never holds more than one signal; the
\* delivery of a signal is possible whatever the channels hold, and it leaves
\* a channel that is full as it is; so the signals a listener has logged and
\* the one it may still hold never number more than the signals delivered to
\* the process.
C17_AtMostOnePendingSignal ==
    [][/\ (Events < MaxEvents /\ \E l \in Listeners : Registered(l)) =>
             ENABLED DeliverSignal("interrupt")
       /\ \A l \in Listeners :
             /\ Len(interruptChannel'[l]) <= InterruptChannelCap
             /\ SigCount(log'[l]) + Len(interruptChannel'[l]) <= signalsSent'
             /\ (signalsSent' # signalsSent
                   /\ Len(interruptChannel[l]) = InterruptChannelCap) =>
                   interruptChannel'[l] = interruptChannel[l]]_vars

\* a listener that was offered every signal, holds none, and has logged fewer
\* signals than were delivered: one was dropped
C17_Witness ==
    \E l \in Listeners :
        /\ earlyNotify[l]
        /\ interruptChannel[l] = <<>>
        /\ pc[l] = "loop"
        /\ signalsSent = 2 /\ raised = 0
        /\ SigCount(log[l]) = 1

====
